---- MODULE Spec2Model ----
(***************************************************************************)
(* The simple-tools server of guMCP: a process-wide store of per-user      *)
(* key-value tables (user_data_stores), the server factory create_server   *)
(* and the tool handler handle_call_tool with its authentication gate      *)
(* get_simple_tools_credentials (src/servers/simple-tools-server/main.py). *)
(*                                                                         *)
(* Python dictionaries are objects: user_data_stores maps a user to a      *)
(* REFERENCE, and heap maps each reference to the dictionary's content, so *)
(* that an in-place write through one alias is seen through every other.   *)
(*                                                                         *)
(* Left out, because they are drawn from the wall clock and the random     *)
(* generator and nothing below reads them: the random suffix of a result's *)
(* "id" (its fixed prefix is kept), "timestamp", and the text of           *)
(* "formatted_list", a rendering of "data" (the iteration that builds it,  *)
(* and the fault it raises when the table grows meanwhile, are kept).      *)
(***************************************************************************)
EXTENDS Naturals, Sequences, FiniteSets, TLC

VARIABLES
    user_data_stores,   \* main.py:28   user_id -> reference of that user's table
    heap,               \* reference -> content of the dictionary (key -> value)
    environment,        \* os.environ.get("ENVIRONMENT", "local"), read at main.py:63
    latest,             \* history: per user, key -> value of the latest store_data
                        \*   that returned a success record to that user
    calls,              \* tool calls in flight, step by step (ConcSpec only)
    creators            \* create_server calls in flight (ConcSpec only)

vars == <<user_data_stores, heap, environment, latest, calls, creators>>

----------------------------------------------------------------------------
(* Bounds and input universes *)

\* The number of distinct keys the callers use.
NumKeys == 2

KeyNames == <<"test_key", "another_key", "nonexistent_key", "fourth_key">>

Keys == {KeyNames[i] : i \in 1..NumKeys}
Values == {"test_value", "another_value"}

\* Python's None, kept apart from every string the model uses.
None == "<None>"

UserIds == {"local", "remote"}
\* create_server(user_id) with no user identifier: None or the empty string.
NoUserIds == {None, ""}
AllUserIds == UserIds \cup NoUserIds

ToolNames == {"store_data", "retrieve_data", "list_data"}
UnknownNames == {"delete_data", "store"}
Names == ToolNames \cup UnknownNames

----------------------------------------------------------------------------
(* Python values *)

EmptyDict == <<>>

\* d.get(f): the value, or None when f is no key of d.
DictGet(d, f) == IF f \in DOMAIN d THEN d[f] ELSE None

\* d[k] = v: insert or overwrite.
DictSet(d, k, v) == [x \in DOMAIN d \cup {k} |-> IF x = k THEN v ELSE d[x]]

\* bool(s) of a string or None.
Truthy(s) == s # None /\ s # ""

\* The arguments of a tool call: None, or a dictionary over "key" and "value".
NoArguments == [is_none |-> TRUE, dict |-> EmptyDict]
Arguments(d) == [is_none |-> FALSE, dict |-> d]

ArgumentDicts ==
    UNION { [fs -> {""} \cup Keys \cup Values] : fs \in SUBSET {"key", "value"} }

WellTyped(d) ==
    /\ ("key" \in DOMAIN d => d["key"] \in {""} \cup Keys)
    /\ ("value" \in DOMAIN d => d["value"] \in {""} \cup Values)

ArgumentObjects ==
    {NoArguments} \cup {Arguments(d) : d \in {e \in ArgumentDicts : WellTyped(e)}}

\* bool(arguments): False for None and for the empty dictionary.
ArgumentsTruthy(arguments) == ~arguments.is_none /\ arguments.dict # EmptyDict

\* What auth_client.get_user_credentials("simple-tools", user_id) can answer:
\* nothing, a bare string, or a dictionary.
NoCredentials == [type |-> "none", str |-> None, dict |-> EmptyDict]
StrCredentials(s) == [type |-> "str", str |-> s, dict |-> EmptyDict]
DictCredentials(d) == [type |-> "dict", str |-> None, dict |-> d]

CredentialAnswers ==
    { NoCredentials,
      StrCredentials(""),
      StrCredentials("sk-1"),
      DictCredentials(EmptyDict),
      DictCredentials([api_key |-> ""]),
      DictCredentials([api_key |-> "sk-1"]),
      DictCredentials([token |-> "sk-1"]) }

\* bool(credentials_data)
CredentialsTruthy(cd) ==
    CASE cd.type = "none" -> FALSE
      [] cd.type = "str" -> cd.str # ""
      [] cd.type = "dict" -> cd.dict # EmptyDict

----------------------------------------------------------------------------
(* References *)

\* The dictionary allocated by create_server for user u (main.py:96); several
\* dictionaries allocated for the same user are told apart by a number.
NthTableRef(u, n) == <<"table", u, n>>
TableRef(u) == NthTableRef(u, 1)
\* The default dictionary of user_data_stores.get(current_user, {}) in call c
\* (main.py:227).
DefaultRef(c) == <<"default", c>>

Range(f) == {f[x] : x \in DOMAIN f}

\* Garbage collection: a dictionary nothing refers to is gone.
Collect(stores, hp, held) ==
    [r \in (DOMAIN hp) \cap (Range(stores) \cup held) |-> hp[r]]

\* The tables as their users see them: user -> content.
View(stores, hp) == [u \in DOMAIN stores |-> hp[stores[u]]]

----------------------------------------------------------------------------
(* What a call gives back to the host framework *)

\* return [types.TextContent(type="text", text=json.dumps(result))]
Json(result) == [kind |-> "json", result |-> result]
\* return [types.TextContent(type="text", text=...)], the text given by its pieces
Text(pieces) == [kind |-> "text", text |-> pieces]
\* raise ValueError(message)
Raise(message) == [kind |-> "raise", exception |-> "ValueError", message |-> message]

StoreResult(key, value) ==
    [ id_prefix |-> "store_", status |-> "success", action |-> "store",
      key |-> key, value |-> value,
      message |-> <<"Stored '", key, "' with value: ", value>>,
      authenticated |-> TRUE ]

RetrieveNotFound(key) ==
    [ id_prefix |-> "retrieve_", status |-> "not_found", action |-> "retrieve",
      key |-> key, message |-> <<"Key '", key, "' not found">> ]

\* The success record of retrieve_data; data_store[key] is read once for
\* "value" (main.py:282) and once more for "message" (main.py:283).
RetrieveRecord(key, value, message_value) ==
    [ id_prefix |-> "retrieve_", status |-> "success", action |-> "retrieve",
      key |-> key, value |-> value,
      message |-> <<"Value for '", key, "': ", message_value>> ]

RetrieveSuccess(key, value) == RetrieveRecord(key, value, value)

ListEmpty ==
    [ id_prefix |-> "list_", status |-> "empty", action |-> "list",
      data |-> EmptyDict, count |-> 0, message |-> <<"No data stored">> ]

\* The success record of list_data; len(data_store) is taken once for "count"
\* (main.py:306) and once more for "message" (main.py:307), and the content
\* of "data" is read when the record is serialised (main.py:314).
ListRecord(data, count, message_count) ==
    [ id_prefix |-> "list_", status |-> "success", action |-> "list",
      data |-> data, count |-> count,
      message |-> <<"Found ", message_count, " items">> ]

ListSuccess(table) ==
    ListRecord(table, Cardinality(DOMAIN table), Cardinality(DOMAIN table))

----------------------------------------------------------------------------
(* The authentication gate *)

handle_missing_credentials(user_id, env) ==
    <<"Simple Tools API key not found for user ", user_id, ".">>
        \o (IF env = "local" THEN <<" Please run authentication first.">> ELSE <<>>)

\* As get_simple_tools_credentials, were the second check (main.py:76-77) missing.
get_simple_tools_credentials_unchecked_key(user_id, credentials_data, env) ==
    IF ~CredentialsTruthy(credentials_data)
    THEN [raised |-> TRUE, error_str |-> handle_missing_credentials(user_id, env)]
    ELSE [raised |-> FALSE,
          api_key |-> IF credentials_data.type = "str"
                      THEN credentials_data.str
                      ELSE DictGet(credentials_data.dict, "api_key")]

\* credentials_data is the answer of the auth client for ("simple-tools", user_id).
get_simple_tools_credentials(user_id, credentials_data, env) ==
    IF ~CredentialsTruthy(credentials_data)
    THEN [raised |-> TRUE, error_str |-> handle_missing_credentials(user_id, env)]
    ELSE LET api_key == IF credentials_data.type = "str"
                        THEN credentials_data.str
                        ELSE DictGet(credentials_data.dict, "api_key")
         IN  IF ~Truthy(api_key)
             THEN [raised |-> TRUE,
                   error_str |-> handle_missing_credentials(user_id, env)]
             ELSE [raised |-> FALSE, api_key |-> api_key]

----------------------------------------------------------------------------
(* create_server: the per-user table is made on the first reference to a user *)

\* As create_server, were the table made anew on every call (no check at main.py:95).
create_server_reset(stores, hp, user_id) ==
    IF Truthy(user_id)
    THEN [ stores |-> (user_id :> TableRef(user_id)) @@ stores,
           heap |-> (TableRef(user_id) :> EmptyDict) @@ hp ]
    ELSE [ stores |-> stores, heap |-> hp ]

\* main.py:92 and :95: if user_id: ... if user_id not in user_data_stores:
TableNeeded(stores, user_id) == Truthy(user_id) /\ user_id \notin DOMAIN stores

\* main.py:96: user_data_stores[user_id] = {}, the new dictionary at reference ref
NewTable(stores, hp, user_id, ref) ==
    [ stores |-> (user_id :> ref) @@ stores,
      heap |-> (ref :> EmptyDict) @@ hp ]

create_server(stores, hp, user_id) ==
    IF TableNeeded(stores, user_id)
    THEN NewTable(stores, hp, user_id, TableRef(user_id))
    ELSE [ stores |-> stores, heap |-> hp ]

----------------------------------------------------------------------------
(* handle_call_tool, step by step *)

\* As GetDataStore, were the table taken from the store whoever the caller is.
GetDataStoreAnyUser(stores, hp, current_user, fresh) ==
    IF stores # EmptyDict
    THEN [ref |-> stores[CHOOSE u \in DOMAIN stores : TRUE], heap |-> hp]
    ELSE [ref |-> fresh, heap |-> (fresh :> EmptyDict) @@ hp]

\* data_store = user_data_stores.get(current_user, {}): the user's own dictionary,
\* or a new empty one (at reference fresh) when the user has none.
GetDataStore(stores, hp, current_user, fresh) ==
    IF current_user \in DOMAIN stores
    THEN [ref |-> stores[current_user], heap |-> hp]
    ELSE [ref |-> fresh, heap |-> (fresh :> EmptyDict) @@ hp]

\* As StoreArguments, were only the key checked (if not key).
StoreArgumentsKeyOnly(arguments) ==
    IF ~ArgumentsTruthy(arguments)
    THEN Raise(<<"Missing arguments">>)
    ELSE LET key == DictGet(arguments.dict, "key")
             value == DictGet(arguments.dict, "value")
         IN  IF ~Truthy(key)
             THEN Raise(<<"Missing key or value">>)
             ELSE [kind |-> "ok", key |-> key, value |-> value]

\* The argument checks of store_data: a fault, or the key and value to store.
StoreArguments(arguments) ==
    IF ~ArgumentsTruthy(arguments)
    THEN Raise(<<"Missing arguments">>)
    ELSE LET key == DictGet(arguments.dict, "key")
             value == DictGet(arguments.dict, "value")
         IN  IF ~Truthy(key) \/ ~Truthy(value)
             THEN Raise(<<"Missing key or value">>)
             ELSE [kind |-> "ok", key |-> key, value |-> value]

\* As InPlaceWrite, were an existing entry kept (data_store.setdefault(key, value)).
InPlaceWriteKeepOld(hp, data_store, key, value) ==
    IF key \in DOMAIN hp[data_store] THEN hp
    ELSE [hp EXCEPT ![data_store] = DictSet(@, key, value)]

\* data_store[key] = value, in place
InPlaceWrite(hp, data_store, key, value) ==
    [hp EXCEPT ![data_store] = DictSet(@, key, value)]

\* As WriteBack, without the guard on current_user (main.py:242).
WriteBackUnguarded(stores, current_user, data_store) ==
    (current_user :> data_store) @@ stores

\* if current_user: user_data_stores[current_user] = data_store
WriteBack(stores, current_user, data_store) ==
    IF Truthy(current_user) THEN (current_user :> data_store) @@ stores ELSE stores

store_data(stores, hp, current_user, data_store, arguments) ==
    LET checked == StoreArguments(arguments)
    IN  IF checked.kind = "raise"
        THEN [outcome |-> checked, stores |-> stores, heap |-> hp]
        ELSE [ outcome |-> Json(StoreResult(checked.key, checked.value)),
               stores |-> WriteBack(stores, current_user, data_store),
               heap |-> InPlaceWrite(hp, data_store, checked.key, checked.value) ]

\* As retrieve_data, without the membership test (main.py:267): data_store[key]
\* raises KeyError for a key that is absent.
retrieve_data_unguarded(table, arguments) ==
    IF ~ArgumentsTruthy(arguments)
    THEN Raise(<<"Missing arguments">>)
    ELSE LET key == DictGet(arguments.dict, "key")
         IN  IF ~Truthy(key)
             THEN Raise(<<"Missing key">>)
             ELSE IF key \notin DOMAIN table
                  THEN [kind |-> "raise", exception |-> "KeyError", message |-> <<key>>]
                  ELSE Json(RetrieveSuccess(key, table[key]))

retrieve_data(table, arguments) ==
    IF ~ArgumentsTruthy(arguments)
    THEN Raise(<<"Missing arguments">>)
    ELSE LET key == DictGet(arguments.dict, "key")
         IN  IF ~Truthy(key)
             THEN Raise(<<"Missing key">>)
             ELSE IF key \notin DOMAIN table
                  THEN Json(RetrieveNotFound(key))
                  ELSE Json(RetrieveSuccess(key, table[key]))

\* As list_data, without the branch for an empty table (main.py:290-299).
list_data_always_success(table) == Json(ListSuccess(table))

list_data(table) ==
    IF table = EmptyDict THEN Json(ListEmpty) ELSE Json(ListSuccess(table))

\* As Dispatch, were the last branch an else: every other name lists.
DispatchElseList(stores, hp, current_user, data_store, name, arguments) ==
    CASE name = "store_data" ->
            store_data(stores, hp, current_user, data_store, arguments)
      [] name = "retrieve_data" ->
            [ outcome |-> retrieve_data(hp[data_store], arguments),
              stores |-> stores, heap |-> hp ]
      [] OTHER ->
            [ outcome |-> list_data(hp[data_store]),
              stores |-> stores, heap |-> hp ]

\* The tool dispatch after the gate, on the caller's dictionary data_store.
Dispatch(stores, hp, current_user, data_store, name, arguments) ==
    CASE name = "store_data" ->
            store_data(stores, hp, current_user, data_store, arguments)
      [] name = "retrieve_data" ->
            [ outcome |-> retrieve_data(hp[data_store], arguments),
              stores |-> stores, heap |-> hp ]
      [] name = "list_data" ->
            [ outcome |-> list_data(hp[data_store]),
              stores |-> stores, heap |-> hp ]
      [] OTHER ->
            [ outcome |-> Raise(<<"Unknown tool: ", name>>),
              stores |-> stores, heap |-> hp ]

\* One whole call: what it returns or raises, and the store it leaves.
handle_call_tool(stores, hp, current_user, name, arguments, credentials_data, env, fresh) ==
    LET auth == get_simple_tools_credentials(current_user, credentials_data, env)
    IN  IF auth.raised
        THEN [ outcome |-> Text(<<"Authentication error: ">> \o auth.error_str),
               stores |-> stores, heap |-> hp ]
        ELSE LET got == GetDataStore(stores, hp, current_user, fresh)
             IN  Dispatch(stores, got.heap, current_user, got.ref, name, arguments)

----------------------------------------------------------------------------
(* The program, one whole operation per step *)

CallIds == {"c1", "c2"}

\* A call not yet made; value, count, message_count and iter_size are the
\* handler's intermediate reads of the table.
IdleCall ==
    [ pc |-> "idle", user |-> None, name |-> None, arguments |-> NoArguments,
      data_store |-> <<>>, value |-> None, count |-> 0, message_count |-> 0,
      iter_size |-> 0, outcome |-> [kind |-> "none"] ]

CreatorIds == {"s1", "s2"}
IdleCreator == [pc |-> "idle", user |-> None]

\* A handler exists only inside a server made by create_server; a server made
\* with no user identifier leaves no trace in the store, so one can always exist.
HasServer(stores, user_id) == Truthy(user_id) => user_id \in DOMAIN stores

Init ==
    /\ user_data_stores = EmptyDict
    /\ heap = EmptyDict
    /\ environment \in {"local", "production"}
    /\ latest = [u \in UserIds |-> EmptyDict]
    /\ calls = [c \in CallIds |-> IdleCall]
    /\ creators = [s \in CreatorIds |-> IdleCreator]

CreateServer(user_id) ==
    \E made \in {create_server(user_data_stores, heap, user_id)} :
        /\ user_data_stores' = made.stores
        /\ heap' = made.heap
        /\ UNCHANGED <<environment, latest, calls, creators>>

\* The history of successful stores, as the callers saw them.
Remember(history, current_user, outcome) ==
    IF /\ current_user \in UserIds
       /\ outcome.kind = "json"
       /\ outcome.result.action = "store"
    THEN [history EXCEPT ![current_user] =
              (outcome.result.key :> outcome.result.value) @@ @]
    ELSE history

\* The history of the stores on threads, in the order of their writes in place;
\* checked is what the checks of store_data made of the arguments.
WrittenBy(history, current_user, checked) ==
    IF current_user \in UserIds /\ checked.kind # "raise"
    THEN [history EXCEPT ![current_user] = (checked.key :> checked.value) @@ @]
    ELSE history

CallTool(current_user, name, arguments, credentials_data) ==
    /\ HasServer(user_data_stores, current_user)
    /\ \E done \in {handle_call_tool(user_data_stores, heap, current_user, name,
                        arguments, credentials_data, environment, DefaultRef("call"))} :
           /\ user_data_stores' = done.stores
           /\ heap' = Collect(done.stores, done.heap, {})
           /\ latest' = Remember(latest, current_user, done.outcome)
    /\ UNCHANGED <<environment, calls, creators>>

Next ==
    \/ \E user_id \in AllUserIds : CreateServer(user_id)
    \/ \E current_user \in AllUserIds, name \in Names,
          arguments \in ArgumentObjects, credentials_data \in CredentialAnswers :
            CallTool(current_user, name, arguments, credentials_data)

Spec == Init /\ [][Next]_vars

----------------------------------------------------------------------------
(* The program on a host that runs create_server and the handlers on several  *)
(* threads: every read and every write of the shared store is a step of its   *)
(* own, any other thread's steps in between.  No lock is taken anywhere in    *)
(* main.py.  CallIds are the threads that serve tool calls, one at a time.    *)

\* The caller on the threads: one identified user, whose table the threads share.
ConcUsers == {"local"}

\* The keys of the concurrent requests: the two keys the tests store.
ConcKeys == {KeyNames[1], KeyNames[2]}

\* The requests made concurrently: stores of valid pairs, a store with no
\* arguments, retrievals, listings and an unknown name.
ConcRequests ==
    { [name |-> "store_data", arguments |-> Arguments([key |-> k, value |-> v])] :
          k \in ConcKeys, v \in Values }
    \cup { [name |-> "retrieve_data", arguments |-> Arguments([key |-> k])] :
             k \in ConcKeys }
    \cup { [name |-> n, arguments |-> NoArguments] :
             n \in {"store_data", "list_data", "delete_data"} }

\* The dictionaries some call in flight holds in its local data_store.
Held(cs) ==
    { cs[c].data_store :
        c \in {d \in DOMAIN cs : cs[d].pc \notin {"idle", "auth", "lookup", "done"}} }

\* main.py:96: {} is a new object, none of the dictionaries still alive.  Every
\* create_server call in flight writes at most one table for a user.
FreshTableRef(hp, u) ==
    NthTableRef(u, CHOOSE n \in 1..Cardinality(CreatorIds) :
                      /\ NthTableRef(u, n) \notin DOMAIN hp
                      /\ \A m \in 1..(n - 1) : NthTableRef(u, m) \in DOMAIN hp)

\* main.py:86-95: create_server up to its test of user_data_stores.  When no
\* table is needed the server is returned and nothing has changed.
CreateCheckStep(s, user_id) ==
    /\ creators[s].pc = "idle"
    /\ creators' = [creators EXCEPT ![s] =
                      IF TableNeeded(user_data_stores, user_id)
                      THEN [pc |-> "write", user |-> user_id]
                      ELSE IdleCreator]
    /\ UNCHANGED <<user_data_stores, heap, environment, latest, calls>>

\* main.py:96: the write the test led to, whatever has happened since the test.
CreateWriteStep(s) ==
    /\ creators[s].pc = "write"
    /\ \E made \in {NewTable(user_data_stores, heap, creators[s].user,
                             FreshTableRef(heap, creators[s].user))} :
          /\ user_data_stores' = made.stores
          /\ heap' = Collect(made.stores, made.heap, Held(calls))
    /\ creators' = [creators EXCEPT ![s] = IdleCreator]
    /\ UNCHANGED <<environment, latest, calls>>

\* The call ends with outcome; the handler's locals are gone.
Finished(call, outcome) ==
    [IdleCall EXCEPT !.pc = "done", !.user = call.user, !.name = call.name,
                     !.outcome = outcome]

\* main.py:207-210: the host invokes the handler of a server.
Invoke(c, current_user, request) ==
    /\ calls[c].pc = "idle"
    /\ HasServer(user_data_stores, current_user)
    /\ calls' = [calls EXCEPT ![c] =
                    [IdleCall EXCEPT !.pc = "auth", !.user = current_user,
                                     !.name = request.name,
                                     !.arguments = request.arguments]]
    /\ UNCHANGED <<user_data_stores, heap, environment, latest, creators>>

\* main.py:212-224: the gate; its failure ends the call with a text.
AuthStep(c, credentials_data) ==
    /\ calls[c].pc = "auth"
    /\ \E auth \in {get_simple_tools_credentials(calls[c].user, credentials_data,
                                                 environment)} :
          calls' = [calls EXCEPT ![c] =
                      IF auth.raised
                      THEN Finished(@, Text(<<"Authentication error: ">>
                                              \o auth.error_str))
                      ELSE [@ EXCEPT !.pc = "lookup"]]
    /\ UNCHANGED <<user_data_stores, heap, environment, latest, creators>>

\* main.py:227: data_store = user_data_stores.get(current_user, {})
LookupStep(c) ==
    /\ calls[c].pc = "lookup"
    /\ \E got \in {GetDataStore(user_data_stores, heap, calls[c].user, DefaultRef(c))} :
          /\ calls' = [calls EXCEPT ![c] = [@ EXCEPT !.pc = "dispatch",
                                                     !.data_store = got.ref]]
          /\ heap' = Collect(user_data_stores, got.heap, Held(calls'))
    /\ UNCHANGED <<user_data_stores, environment, latest, creators>>


\* The branch taken and its first access to the table:
\*   store_data     main.py:229-240  the checks, then the write in place;
\*   retrieve_data  main.py:258-275  the checks, then "key not in data_store";
\*   list_data      main.py:289-299  "not data_store";
\*   other names    main.py:316.
DispatchStep(c) ==
    /\ calls[c].pc = "dispatch"
    /\ CASE calls[c].name = "store_data" ->
              \E checked \in {StoreArguments(calls[c].arguments)} :
                 IF checked.kind = "raise"
                 THEN /\ calls' = [calls EXCEPT ![c] = Finished(@, checked)]
                      /\ heap' = Collect(user_data_stores, heap, Held(calls'))
                 ELSE /\ calls' = [calls EXCEPT ![c] = [@ EXCEPT !.pc = "writeback"]]
                      /\ heap' = InPlaceWrite(heap, calls[c].data_store,
                                              checked.key, checked.value)
         [] calls[c].name = "retrieve_data" ->
              \E first \in {retrieve_data(heap[calls[c].data_store],
                                          calls[c].arguments)} :
                 /\ calls' = [calls EXCEPT ![c] =
                                IF first.kind = "json" /\ first.result.status = "success"
                                THEN [@ EXCEPT !.pc = "retrieve_value"]
                                ELSE Finished(@, first)]
                 /\ heap' = Collect(user_data_stores, heap, Held(calls'))
         [] calls[c].name = "list_data" ->
              /\ calls' = [calls EXCEPT ![c] =
                             IF heap[calls[c].data_store] = EmptyDict
                             THEN Finished(@, Json(ListEmpty))
                             ELSE [@ EXCEPT !.pc = "list_count"]]
              /\ heap' = Collect(user_data_stores, heap, Held(calls'))
         [] OTHER ->
              \E done \in {Dispatch(user_data_stores, heap, calls[c].user,
                                    calls[c].data_store, calls[c].name,
                                    calls[c].arguments)} :
                 /\ calls' = [calls EXCEPT ![c] = Finished(@, done.outcome)]
                 /\ heap' = Collect(user_data_stores, heap, Held(calls'))
    /\ latest' = IF calls[c].name = "store_data"
                 THEN WrittenBy(latest, calls[c].user, StoreArguments(calls[c].arguments))
                 ELSE latest
    /\ UNCHANGED <<user_data_stores, environment, creators>>

\* main.py:242-256: the write-back to the process-wide store and the result.
WriteBackStep(c) ==
    /\ calls[c].pc = "writeback"
    /\ \E checked \in {StoreArguments(calls[c].arguments)} :
          calls' = [calls EXCEPT ![c] =
                      Finished(@, Json(StoreResult(checked.key, checked.value)))]
    /\ user_data_stores' = WriteBack(user_data_stores, calls[c].user, calls[c].data_store)
    /\ heap' = Collect(user_data_stores', heap, Held(calls'))
    /\ UNCHANGED <<environment, latest, creators>>

\* main.py:282: "value": data_store[key]
RetrieveValueStep(c) ==
    /\ calls[c].pc = "retrieve_value"
    /\ calls' = [calls EXCEPT ![c] =
                   [@ EXCEPT !.pc = "retrieve_message",
                             !.value = heap[calls[c].data_store][calls[c].arguments.dict["key"]]]]
    /\ UNCHANGED <<user_data_stores, heap, environment, latest, creators>>

\* main.py:283-287: "message": f"...{data_store[key]}", and the record is returned.
RetrieveMessageStep(c) ==
    /\ calls[c].pc = "retrieve_message"
    /\ calls' = [calls EXCEPT ![c] =
                   Finished(@, Json(RetrieveRecord(calls[c].arguments.dict["key"],
                       calls[c].value,
                       heap[calls[c].data_store][calls[c].arguments.dict["key"]])))]
    /\ heap' = Collect(user_data_stores, heap, Held(calls'))
    /\ UNCHANGED <<user_data_stores, environment, latest, creators>>

\* main.py:306: "count": len(data_store)
ListCountStep(c) ==
    /\ calls[c].pc = "list_count"
    /\ calls' = [calls EXCEPT ![c] =
                   [@ EXCEPT !.pc = "list_message",
                             !.count = Cardinality(DOMAIN heap[calls[c].data_store])]]
    /\ UNCHANGED <<user_data_stores, heap, environment, latest, creators>>

\* main.py:307: "message": f"Found {len(data_store)} items"
ListMessageStep(c) ==
    /\ calls[c].pc = "list_message"
    /\ calls' = [calls EXCEPT ![c] =
                   [@ EXCEPT !.pc = "list_iter",
                             !.message_count = Cardinality(DOMAIN heap[calls[c].data_store])]]
    /\ UNCHANGED <<user_data_stores, heap, environment, latest, creators>>

\* main.py:308-310: the iteration over data_store.items() begins; the iterator
\* remembers the size of the dictionary.
ListIterStep(c) ==
    /\ calls[c].pc = "list_iter"
    /\ calls' = [calls EXCEPT ![c] =
                   [@ EXCEPT !.pc = "list_join",
                             !.iter_size = Cardinality(DOMAIN heap[calls[c].data_store])]]
    /\ UNCHANGED <<user_data_stores, heap, environment, latest, creators>>

\* main.py:308-310: the iteration ends; a dictionary that has grown since it
\* began makes the iterator raise RuntimeError.
ListJoinStep(c) ==
    /\ calls[c].pc = "list_join"
    /\ calls' = [calls EXCEPT ![c] =
                   IF Cardinality(DOMAIN heap[calls[c].data_store]) # calls[c].iter_size
                   THEN Finished(@, [kind |-> "raise", exception |-> "RuntimeError",
                          message |-> <<"dictionary changed size during iteration">>])
                   ELSE [@ EXCEPT !.pc = "list_dumps"]]
    /\ heap' = Collect(user_data_stores, heap, Held(calls'))
    /\ UNCHANGED <<user_data_stores, environment, latest, creators>>

\* main.py:314: json.dumps(result) reads the content of "data", the dictionary itself.
ListDumpsStep(c) ==
    /\ calls[c].pc = "list_dumps"
    /\ calls' = [calls EXCEPT ![c] =
                   Finished(@, Json(ListRecord(heap[calls[c].data_store],
                                               calls[c].count, calls[c].message_count)))]
    /\ heap' = Collect(user_data_stores, heap, Held(calls'))
    /\ UNCHANGED <<user_data_stores, environment, latest, creators>>

\* The host has taken the result of the call; its thread serves another request.
ReturnStep(c) ==
    /\ calls[c].pc = "done"
    /\ calls' = [calls EXCEPT ![c] = IdleCall]
    /\ UNCHANGED <<user_data_stores, heap, environment, latest, creators>>

ConcNext ==
    \/ \E s \in CreatorIds, user_id \in ConcUsers : CreateCheckStep(s, user_id)
    \/ \E s \in CreatorIds : CreateWriteStep(s)
    \/ \E c \in CallIds, current_user \in ConcUsers, request \in ConcRequests :
          Invoke(c, current_user, request)
    \/ \E c \in CallIds, credentials_data \in CredentialAnswers :
          AuthStep(c, credentials_data)
    \/ \E c \in CallIds : LookupStep(c)
    \/ \E c \in CallIds : DispatchStep(c)
    \/ \E c \in CallIds : WriteBackStep(c)
    \/ \E c \in CallIds : RetrieveValueStep(c)
    \/ \E c \in CallIds : RetrieveMessageStep(c)
    \/ \E c \in CallIds : ListCountStep(c)
    \/ \E c \in CallIds : ListMessageStep(c)
    \/ \E c \in CallIds : ListIterStep(c)
    \/ \E c \in CallIds : ListJoinStep(c)
    \/ \E c \in CallIds : ListDumpsStep(c)
    \/ \E c \in CallIds : ReturnStep(c)

ConcSpec == Init /\ [][ConcNext]_vars

----------------------------------------------------------------------------
(* Vocabulary of the properties *)

\* Credentials by their shape: a usable API key is a non-empty bare string or a
\* non-empty "api_key" entry; everything else is "no credentials" or "an empty key".
PassingCredentials ==
    { cd \in CredentialAnswers :
        \/ cd.type = "str" /\ cd.str # ""
        \/ cd.type = "dict" /\ "api_key" \in DOMAIN cd.dict /\ cd.dict["api_key"] # "" }
FailingCredentials == CredentialAnswers \ PassingCredentials

\* The callers that can exist now, and those with a user identifier.
Callers == {u \in AllUserIds : HasServer(user_data_stores, u)}
Identified == UserIds \cap DOMAIN user_data_stores

Tables == View(user_data_stores, heap)

\* A whole tool call made in the current state: its outcome and the store it leaves.
Call(current_user, name, arguments, credentials_data) ==
    handle_call_tool(user_data_stores, heap, current_user, name, arguments,
                     credentials_data, environment, DefaultRef("call"))
HeapAfter(done) == Collect(done.stores, done.heap, {})
TablesAfter(done) == View(done.stores, HeapAfter(done))
\* The call left the process-wide store as it was: same tables, same contents.
LeftUnchanged(done) ==
    /\ done.stores = user_data_stores
    /\ HeapAfter(done) = heap
    /\ View(done.stores, done.heap) = Tables
\* A call made right after the call that ended in done.
CallAfter(done, current_user, name, arguments, credentials_data) ==
    handle_call_tool(done.stores, HeapAfter(done), current_user, name, arguments,
                     credentials_data, environment, DefaultRef("call"))

\* The argument objects of retrieve_data that name key k.
RetrieveArguments(k) ==
    {a \in ArgumentObjects : ~a.is_none /\ DictGet(a.dict, "key") = k}
Missing(arguments, field) ==
    \/ arguments.is_none
    \/ field \notin DOMAIN arguments.dict
    \/ arguments.dict[field] = ""
InvalidArgument(outcome) ==
    /\ outcome.kind = "raise"
    /\ outcome.exception = "ValueError"
    /\ outcome.message \in
         {<<"Missing arguments">>, <<"Missing key or value">>, <<"Missing key">>}
UnknownTool(outcome, name) ==
    outcome = Raise(<<"Unknown tool: ", name>>)
Status(outcome, status) ==
    outcome.kind = "json" /\ outcome.result.status = status

----------------------------------------------------------------------------
(* C1: in every reachable state, for every identified user u and every key k  *)
(* that store_data has reported stored for u, retrieve_data(k) made as u      *)
(* (passing the gate) returns status success with the value of u's most       *)
(* recent successful store_data of k.                                         *)
C1_RetrieveReturnsLatestStore ==
    \A u \in Identified : \A k \in DOMAIN latest[u] :
        \A cd \in PassingCredentials, a \in RetrieveArguments(k) :
            LET o == Call(u, "retrieve_data", a, cd).outcome
            IN  /\ Status(o, "success")
                /\ o.result.key = k
                /\ o.result.value = latest[u][k]

\* Two users hold different values under the same key and each gets its own.
C1_Witness ==
    \E u \in Identified, w \in Identified : \E k \in Keys :
        /\ k \in DOMAIN latest[u] /\ k \in DOMAIN latest[w]
        /\ latest[u][k] # latest[w][k]
        /\ Call(u, "retrieve_data", Arguments([key |-> k]),
                DictCredentials([api_key |-> "sk-1"])).outcome
             = Json(RetrieveSuccess(k, latest[u][k]))

(* C2: for distinct callers a and b, b identified: no tool call made as a,    *)
(* whatever its name, arguments and credentials, changes b's table; and what  *)
(* retrieve_data and list_data return to b is only what b itself stored.      *)
C2_UsersAreIsolated ==
    \A b \in Identified :
        /\ \A a \in Callers \ {b} :
              \A name \in Names, arguments \in ArgumentObjects,
                 cd \in CredentialAnswers :
                  LET done == Call(a, name, arguments, cd)
                  IN  /\ b \in DOMAIN done.stores
                      /\ TablesAfter(done)[b] = Tables[b]
        /\ \A cd \in PassingCredentials :
              /\ \A k \in Keys :
                    LET o == Call(b, "retrieve_data", Arguments([key |-> k]), cd).outcome
                    IN  Status(o, "success") =>
                            /\ k \in DOMAIN latest[b]
                            /\ o.result.value = latest[b][k]
              /\ LET o == Call(b, "list_data", NoArguments, cd).outcome
                 IN  o.kind = "json" /\ o.result.data = latest[b]

\* a has stored a key that b has not; b is told not_found and lists without it.
C2_Witness ==
    \E a \in Identified, b \in Identified : \E k \in Keys :
        /\ a # b
        /\ k \in DOMAIN latest[a] /\ k \notin DOMAIN latest[b]
        /\ latest[b] # EmptyDict
        /\ Status(Call(b, "retrieve_data", Arguments([key |-> k]),
                       StrCredentials("sk-1")).outcome, "not_found")
        /\ k \notin DOMAIN Call(b, "list_data", NoArguments,
                                StrCredentials("sk-1")).outcome.result.data

(* C3: when the credential lookup finds nothing or an empty API key, the call *)
(* returns one text beginning with "Authentication error:" for every caller,  *)
(* tool name and argument object, raises nothing and changes no table.        *)
C3_AuthenticationFailureShortCircuits ==
    \A u \in Callers, name \in Names, arguments \in ArgumentObjects,
       cd \in FailingCredentials :
        LET done == Call(u, name, arguments, cd)
        IN  /\ done.outcome.kind = "text"
            /\ Len(done.outcome.text) >= 1
            /\ done.outcome.text[1] = "Authentication error: "
            /\ LeftUnchanged(done)

\* A store of a new pair by a user who already holds data is refused at the gate.
C3_Witness ==
    \E u \in Identified, k \in Keys, v \in Values :
        /\ latest[u] # EmptyDict /\ k \notin DOMAIN latest[u]
        /\ LET done == Call(u, "store_data", Arguments([key |-> k, value |-> v]),
                            DictCredentials([api_key |-> ""]))
           IN  /\ done.outcome.kind = "text"
               /\ LeftUnchanged(done)
               /\ k \notin DOMAIN Tables[u]

(* C4: list_data made as an identified user (passing the gate) returns status *)
(* empty, count 0 and empty data while that user has stored nothing; once the *)
(* user has stored N >= 1 distinct keys it returns status success, count N    *)
(* and data holding exactly those keys, each with its latest value.           *)
C4_ListCountsStoredKeys ==
    \A u \in Identified, arguments \in ArgumentObjects, cd \in PassingCredentials :
        LET o == Call(u, "list_data", arguments, cd).outcome
            n == Cardinality(DOMAIN latest[u])
        IN  /\ o.kind = "json"
            /\ o.result.count = n
            /\ o.result.data = latest[u]
            /\ o.result.status = (IF n = 0 THEN "empty" ELSE "success")

\* One user has stored every key and lists them all; another lists nothing.
C4_Witness ==
    \E u \in Identified, w \in Identified :
        /\ DOMAIN latest[u] = Keys
        /\ Call(u, "list_data", NoArguments, StrCredentials("sk-1")).outcome.result.count
             = NumKeys
        /\ latest[w] = EmptyDict
        /\ Status(Call(w, "list_data", NoArguments, StrCredentials("sk-1")).outcome,
                  "empty")

(* C5: retrieve_data (passing the gate) with a non-empty key the caller never *)
(* stored returns a record with status not_found and raises nothing, whatever *)
(* else the caller and the other users have stored.  For a caller with no     *)
(* user identifier that is every key.                                         *)
C5_RetrieveOfUnstoredKeyIsNotFound ==
    \A u \in Callers, k \in Keys :
        (u \in UserIds => k \notin DOMAIN latest[u]) =>
            \A cd \in PassingCredentials, a \in RetrieveArguments(k) :
                LET done == Call(u, "retrieve_data", a, cd)
                IN  /\ Status(done.outcome, "not_found")
                    /\ done.outcome.result.key = k

\* The caller holds another key, and another user holds the key asked for.
C5_Witness ==
    \E u \in Identified, w \in Identified, k \in Keys :
        /\ u # w
        /\ latest[u] # EmptyDict /\ k \notin DOMAIN latest[u]
        /\ k \in DOMAIN latest[w]
        /\ Call(u, "retrieve_data", Arguments([key |-> k]),
                StrCredentials("sk-1")).outcome = Json(RetrieveNotFound(k))

(* C6: a tool call (passing the gate) whose name is none of store_data,       *)
(* retrieve_data and list_data raises the fault "Unknown tool: <name>" to the *)
(* host framework and leaves every user's table unchanged.                    *)
C6_UnknownToolFails ==
    \A u \in Callers, name \in Names \ ToolNames, arguments \in ArgumentObjects,
       cd \in PassingCredentials :
        LET done == Call(u, name, arguments, cd)
        IN  /\ UnknownTool(done.outcome, name)
            /\ LeftUnchanged(done)

\* An unknown name called with a storable pair by a user who holds data.
C6_Witness ==
    \E u \in Identified, k \in Keys, v \in Values :
        /\ latest[u] # EmptyDict /\ k \notin DOMAIN latest[u]
        /\ LET done == Call(u, "store", Arguments([key |-> k, value |-> v]),
                            StrCredentials("sk-1"))
           IN  /\ done.outcome.kind = "raise"
               /\ LeftUnchanged(done)
               /\ k \notin DOMAIN Tables[u]

(* C7: store_data whose key or value is missing or empty, and retrieve_data   *)
(* whose key is missing or empty, (passing the gate) raise an invalid-argument*)
(* fault instead of returning a record and leave the process-wide store       *)
(* exactly as it was, so that any call made next returns what it would have   *)
(* returned without the failed call.                                          *)
C7_InvalidArgumentsFailWithoutEffect ==
    \A u \in Callers, arguments \in ArgumentObjects, cd \in PassingCredentials :
        /\ (Missing(arguments, "key") \/ Missing(arguments, "value")) =>
              LET done == Call(u, "store_data", arguments, cd)
              IN  InvalidArgument(done.outcome) /\ LeftUnchanged(done)
        /\ Missing(arguments, "key") =>
              LET done == Call(u, "retrieve_data", arguments, cd)
              IN  InvalidArgument(done.outcome) /\ LeftUnchanged(done)

\* A store with a key and an empty value, by a user who holds another key.
C7_Witness ==
    \E u \in Identified, k \in Keys :
        /\ latest[u] # EmptyDict /\ k \notin DOMAIN latest[u]
        /\ LET done == Call(u, "store_data", Arguments([key |-> k, value |-> ""]),
                            StrCredentials("sk-1"))
           IN  /\ done.outcome = Raise(<<"Missing key or value">>)
               /\ LeftUnchanged(done)
               /\ k \notin DOMAIN Tables[u]

(* C8: create_server makes a user's table, empty, the first time it is called *)
(* for that user and touches no other table; called again for a user who has  *)
(* a table it changes nothing; no table is ever removed or reset, so every    *)
(* entry stored before is still what retrieve_data and list_data return to    *)
(* its user through the new server.                                           *)
C8_CreateServerKeepsTables ==
    /\ \A w \in UserIds :
          latest[w] # EmptyDict => w \in DOMAIN user_data_stores /\ Tables[w] = latest[w]
    /\ \A u \in AllUserIds :
          LET made == create_server(user_data_stores, heap, u)
          IN  /\ IF Truthy(u) /\ u \notin DOMAIN user_data_stores
                 THEN View(made.stores, made.heap) = (u :> EmptyDict) @@ Tables
                 ELSE made.stores = user_data_stores /\ made.heap = heap
              /\ \A w \in Identified, cd \in PassingCredentials :
                    /\ \A k \in DOMAIN latest[w] :
                          handle_call_tool(made.stores, made.heap, w, "retrieve_data",
                              Arguments([key |-> k]), cd, environment,
                              DefaultRef("call")).outcome
                            = Json(RetrieveSuccess(k, latest[w][k]))
                    /\ handle_call_tool(made.stores, made.heap, w, "list_data",
                              NoArguments, cd, environment,
                              DefaultRef("call")).outcome.result.data = latest[w]

\* A user who holds every key gets a second server; the state is the one after it.
C8_Witness ==
    \E u \in Identified :
        /\ DOMAIN latest[u] = Keys
        /\ create_server(user_data_stores, heap, u)
             = [stores |-> user_data_stores, heap |-> heap]
        /\ Tables[u] = latest[u]

(* C9: for a server made with no user identifier (None or ""), store_data     *)
(* with a valid key and value (passing the gate) returns a success record but *)
(* adds no entry to any table of the process-wide store; retrieve_data of     *)
(* that key made next returns not_found and list_data returns empty.          *)
C9_StoreWithoutUserIsDropped ==
    \A u \in NoUserIds, k \in Keys, v \in Values, cd \in PassingCredentials :
        LET done == Call(u, "store_data", Arguments([key |-> k, value |-> v]), cd)
        IN  /\ done.outcome = Json(StoreResult(k, v))
            /\ LeftUnchanged(done)
            /\ Status(CallAfter(done, u, "retrieve_data", Arguments([key |-> k]),
                                cd).outcome, "not_found")
            /\ Status(CallAfter(done, u, "list_data", NoArguments, cd).outcome,
                      "empty")

\* Identified users hold data; the store made with no identifier reports success.
C9_Witness ==
    \E w \in Identified, k \in Keys, v \in Values :
        /\ latest[w] # EmptyDict
        /\ LET done == Call(None, "store_data", Arguments([key |-> k, value |-> v]),
                            StrCredentials("sk-1"))
           IN  /\ Status(done.outcome, "success")
               /\ LeftUnchanged(done)
               /\ None \notin DOMAIN user_data_stores

(* C10 (ConcSpec): when two store_data calls made as the same identified user *)
(* for two different keys run with their steps interleaved in any order, then *)
(* at the step that completes the later of the two, both keys are in that     *)
(* user's table, each with the value last written to it.                      *)
StoredBy(c) ==
    /\ calls[c].pc = "done"
    /\ calls[c].name = "store_data"
    /\ Status(calls[c].outcome, "success")

\* Calls c and d have stored two different keys as the same identified user.
StoredTwoKeys(c, d) ==
    /\ StoredBy(c) /\ StoredBy(d)
    /\ calls[c].user = calls[d].user
    /\ calls[c].user \in UserIds
    /\ calls[c].outcome.result.key # calls[d].outcome.result.key

\* The key call c has stored is in the user's table, with the value of the
\* latest write to that key.
EntryKept(c) ==
    LET table == Tables[calls[c].user]
        key == calls[c].outcome.result.key
    IN  /\ key \in DOMAIN table
        /\ table[key] = latest[calls[c].user][key]

\* A step completes the later of the two calls, and both entries are kept.
BothKeptOnCompletion(c, d) ==
    (~StoredTwoKeys(c, d) /\ StoredTwoKeys(c, d)')
    => (EntryKept(c)' /\ EntryKept(d)')

====
